---- MODULE Spec2Model ----
(***************************************************************************)
(* Model of the donation-management backend (backend/index.js): the        *)
(* Express route handlers over the Oracle tables NEW_CREDENTIALS, STAFF,   *)
(* DONOR, CAMPAIGN, PROJECT and DONATION.                                  *)
(*                                                                         *)
(* Every request is a record in req.  A handler is split at the awaited    *)
(* store statements where another request's statement can run in between   *)
(* (every statement is executed with autoCommit, so it commits by itself). *)
(* Handlers with a single store statement are one action.                  *)
(*                                                                         *)
(* Amounts are small integers; the worked examples of the specification    *)
(* are scaled (5000/4800/300 rupees are 50/48/3, 8000/1500/1000 against a  *)
(* goal of 10000 are 16/3/2 against 20).                                   *)
(***************************************************************************)
EXTENDS Integers, FiniteSets, Sequences, TLC

VARIABLES clock, creds, staff, donor, campaign, project, donation, tokens, req, browser

vars ==
    <<clock, creds, staff, donor, campaign, project, donation, tokens, req,
      browser>>

store == <<creds, staff, donor, campaign, project, donation>>

-----------------------------------------------------------------------------
(* Bounds                                                                  *)

\* Number of requests of one behaviour (they may all be in flight at once).
MaxReqs == 2

\* Largest value Date.now() takes (it starts at 1; seeded rows are older).
MaxClock == 2

-----------------------------------------------------------------------------
(* Values                                                                  *)

\* Ids are prefix + '_' + Date.now(): the pair of the prefix and the time.
Id(prefix, t) == <<prefix, t>>

NoId == Id("NONE", 0)

\* JSON body values: a number, null/absent, or a non-numeric text.
JNum(n) == [t |-> "num", v |-> n]

JNull == [t |-> "null", v |-> 0]

JText == [t |-> "text", v |-> 0]

\* JavaScript's !x for a body value (null and 0 are falsy, 'abc' is truthy).
Falsy(x) == x.t = "null" \/ (x.t = "num" /\ x.v = 0)

\* JavaScript's x <= 0 for a body value ('abc' is NaN: every comparison false).
NotPositive(x) == (x.t = "num" /\ x.v <= 0) \/ x.t = "null"

\* bcrypt.hash / bcrypt.compare
bcryptHash(pw) == <<"bcrypt", pw>>

\* A comparison that accepts every password.
bcryptCompareAny(pw, hash) == TRUE

bcryptCompare(pw, hash) == hash = bcryptHash(pw)

\* status.toUpperCase() / userType.toUpperCase() on the inputs used here.
toUpperCase(s) ==
    CASE s = "active" -> "ACTIVE"
      [] s = "completed" -> "COMPLETED"
      [] s = "cancelled" -> "CANCELLED"
      [] s = "staff" -> "STAFF"
      [] s = "donor" -> "DONOR"
      [] OTHER -> s

RECURSIVE SumAmounts(_)
\* SUM(AMOUNT) over a set of rows.
SumAmounts(rows) ==
    IF rows = {} THEN 0
    ELSE LET x == CHOOSE y \in rows : TRUE
         IN x.amount + SumAmounts(rows \ {x})

-----------------------------------------------------------------------------
(* Tokens and responses                                                    *)

TokenTTL == 3600

\* jwt.sign(payload, JWT_SECRET, {expiresIn: '1h'})
jwtSign(userId, primaryId, userType) ==
    [kind |-> "jwt", signed |-> TRUE, exp |-> clock + TokenTTL,
     userId |-> userId, primaryId |-> primaryId, userType |-> userType]

MissingToken ==
    [kind |-> "missing", signed |-> FALSE, exp |-> 0,
     userId |-> NoId, primaryId |-> NoId, userType |-> "NONE"]

\* A token that was not signed with JWT_SECRET, claiming to be staff.
MalformedToken ==
    [kind |-> "jwt", signed |-> FALSE, exp |-> TokenTTL,
     userId |-> Id("STAFF", 0), primaryId |-> Id("S", 0), userType |-> "STAFF"]

\* A token issued to the seeded staff member more than an hour ago.
ExpiredToken ==
    [kind |-> "jwt", signed |-> TRUE, exp |-> 0,
     userId |-> Id("STAFF", 0), primaryId |-> Id("S", 0), userType |-> "STAFF"]

\* jwt.verify(token, JWT_SECRET): no error
jwtVerify(tok) == tok.signed /\ tok.exp > clock

NoData == <<>>

Resp(code, kind, data) == [code |-> code, kind |-> kind, data |-> data]

NoResp == Resp(0, "none", NoData)

\* A verification that reads the payload without checking the signature or
\* the expiry (jwt.decode in the place of jwt.verify).
authenticateTokenDecodeOnly(tok) ==
    IF tok.kind = "missing" THEN Resp(401, "Unauthorized", NoData)
    ELSE Resp(0, "next", NoData)

\* authenticateToken: "next" when the handler chain continues.
authenticateToken(tok) ==
    IF tok.kind = "missing" THEN Resp(401, "Unauthorized", NoData)
    ELSE IF ~jwtVerify(tok) THEN Resp(403, "InvalidToken", NoData)
    ELSE Resp(0, "next", NoData)

\* A role check that lets every authenticated user pass.
authorizeAnyUser(user) == Resp(0, "next", NoData)

\* authorizeStaff, run after authenticateToken set req.user
authorizeStaff(user) ==
    IF user.userType = "STAFF" THEN Resp(0, "next", NoData)
    ELSE Resp(403, "Forbidden", NoData)

\* authorizeDonor, run after authenticateToken set req.user
authorizeDonor(user) ==
    IF user.userType = "DONOR" THEN Resp(0, "next", NoData)
    ELSE Resp(403, "Forbidden", NoData)

\* The chain authenticateToken, authorizeStaff of the staff-only routes.
StaffChain(tok) ==
    IF authenticateToken(tok).kind # "next" THEN authenticateToken(tok)
    ELSE authorizeStaff(tok)

-----------------------------------------------------------------------------
(* Requests                                                                *)

NoBody == <<>>

Idle ==
    [op |-> "none", pc |-> "idle", user |-> MissingToken, body |-> NoBody,
     local |-> NoBody, conn |-> FALSE, resp |-> NoResp]

\* Requests are started in the order of their numbers.
CanStart(r) ==
    /\ req[r].pc = "idle"
    /\ \A q \in DOMAIN req : q < r => req[q].pc # "idle"

\* An answer whose early error returns leave the handler without the close
\* of the finally block.
AnsweredLeakOnError(op, tok, body, local, resp) ==
    [op |-> op, pc |-> "done", user |-> tok, body |-> body, local |-> local,
     conn |-> (resp.code >= 400 /\ local # NoBody), resp |-> resp]

\* The request is answered: res.status(..).json(..), then finally closes the
\* connection when one was acquired.
Answered(op, tok, body, local, resp) ==
    [op |-> op, pc |-> "done", user |-> tok, body |-> body, local |-> local,
     conn |-> FALSE, resp |-> resp]

\* The request holds a connection and waits for its next store statement.
Waiting(op, pc, tok, body, local) ==
    [op |-> op, pc |-> pc, user |-> tok, body |-> body, local |-> local,
     conn |-> TRUE, resp |-> NoResp]

\* The request was refused by a middleware before its handler ran; req.user is
\* set only when authenticateToken accepted the token.
Refused(op, tok, resp) ==
    Answered(op, IF resp.kind = "Forbidden" THEN tok ELSE MissingToken,
             NoBody, NoBody, resp)

\* Callers: the holders of issued tokens, and requests without a valid one.
Callers == tokens \cup {MissingToken, MalformedToken, ExpiredToken}

-----------------------------------------------------------------------------
(* The store at start-up                                                    *)

SeedCreds ==
    { [userId |-> Id("STAFF", 0), aadharNo |-> "111111111111",
       email |-> "staff@ngo.org", password |-> bcryptHash("staffpw"),
       userType |-> "STAFF"],
      [userId |-> Id("DONOR", 0), aadharNo |-> "222222222222",
       email |-> "ann@mail.org", password |-> bcryptHash("annpw1"),
       userType |-> "DONOR"],
      [userId |-> Id("DONOR", -1), aadharNo |-> "333333333333",
       email |-> "bob@mail.org", password |-> bcryptHash("bobpw1"),
       userType |-> "DONOR"] }

SeedStaff == { [staffId |-> Id("S", 0), userId |-> Id("STAFF", 0)] }

SeedDonor ==
    { [donorId |-> Id("D", 0), userId |-> Id("DONOR", 0)],
      [donorId |-> Id("D", -1), userId |-> Id("DONOR", -1)] }

SeedCampaign ==
    { [campId |-> Id("CAMP", 0), cName |-> "Flood relief", status |-> "ACTIVE",
       sDate |-> 1, eDate |-> 2, goalAmount |-> 20, manager |-> Id("S", 0)],
      [campId |-> Id("CAMP", -1), cName |-> "Winter drive",
       status |-> "COMPLETED", sDate |-> 1, eDate |-> 2, goalAmount |-> 10,
       manager |-> Id("S", 0)] }

SeedProject ==
    { [projId |-> Id("PROJ", 0), pName |-> "Shelter", budget |-> 50,
       spent |-> 48, status |-> "ONGOING", sDate |-> 1,
       overseer |-> Id("S", 0), campId |-> NoId] }

SeedDonation ==
    { [dId |-> Id("D", 0), donorId |-> Id("D", 0), campId |-> Id("CAMP", 0),
       amount |-> 16],
      [dId |-> Id("D", -1), donorId |-> Id("D", -1),
       campId |-> Id("CAMP", -1), amount |-> 10] }

-----------------------------------------------------------------------------
(* The browser: AuthContext, the routes of App, Navbar, ProtectedRoute     *)

\* Redirects followed in a row before the browser gives up.
MaxHops == 3

\* JSON.parse(localStorage.getItem('user')) with nothing stored: null.
NoUser == <<>>

\* A location is the sequence of its path segments: "/" is <<>>.
Paths ==
    { <<>>, <<"login">>, <<"signup">>, <<"help">>,
      <<"dashboard", "staff">>, <<"dashboard", "donor">>,
      <<"dashboard", "admin">>, <<"receipt", "D_0">> }

\* The window as it opens: nothing in localStorage, nothing rendered yet.
FreshBrowser ==
    [path |-> <<>>, token |-> MissingToken, user |-> NoUser,
     view |-> "pending", navbar |-> FALSE, hops |-> 0, awaiting |-> 0]

\* The first <Routes> of App: /dashboard/* and /receipt/* render Navbar.
NavbarMatches(path) ==
    /\ Len(path) >= 1
    /\ path[1] \in {"dashboard", "receipt"}

\* user?.userType
UserTypeOf(user) == IF user = NoUser THEN "undefined" ELSE user.userType

Element(page) == [kind |-> "element", page |-> page, to |-> <<>>]

Navigate(to) == [kind |-> "navigate", page |-> "none", to |-> to]

\* ProtectedRoute: requiredType is the set of the types it was given (one
\* string or an array of strings).
ProtectedRoute(token, user, element, requiredType) ==
    IF token = MissingToken THEN Navigate(<<"login">>)
    ELSE IF UserTypeOf(user) \in requiredType THEN Element(element)
    ELSE IF UserTypeOf(user) = "STAFF"
    THEN Navigate(<<"dashboard", "staff">>)
    ELSE Navigate(<<"dashboard", "donor">>)

\* The second <Routes> of App; a location no route matches renders nothing.
Routes(path, token, user) ==
    IF path = <<>> THEN Navigate(<<"login">>)
    ELSE IF path = <<"login">> THEN Element("Login")
    ELSE IF path = <<"signup">> THEN Element("Signup")
    ELSE IF path = <<"dashboard", "staff">>
    THEN ProtectedRoute(token, user, "StaffDashboard", {"STAFF"})
    ELSE IF path = <<"dashboard", "donor">>
    THEN ProtectedRoute(token, user, "DonorDashboard", {"DONOR"})
    ELSE IF Len(path) = 2 /\ path[1] = "receipt"
    THEN ProtectedRoute(token, user, "DonorReceipt", {"DONOR", "STAFF"})
    ELSE Element("none")

\* Sessions open at start-up: the seeded users are logged in.
SeedTokens ==
    { [kind |-> "jwt", signed |-> TRUE, exp |-> TokenTTL,
       userId |-> Id("STAFF", 0), primaryId |-> Id("S", 0),
       userType |-> "STAFF"],
      [kind |-> "jwt", signed |-> TRUE, exp |-> TokenTTL,
       userId |-> Id("DONOR", 0), primaryId |-> Id("D", 0),
       userType |-> "DONOR"],
      [kind |-> "jwt", signed |-> TRUE, exp |-> TokenTTL,
       userId |-> Id("DONOR", -1), primaryId |-> Id("D", -1),
       userType |-> "DONOR"] }

Init ==
    /\ clock = 1
    /\ creds = SeedCreds
    /\ staff = SeedStaff
    /\ donor = SeedDonor
    /\ campaign = SeedCampaign
    /\ project = SeedProject
    /\ donation = SeedDonation
    /\ tokens = SeedTokens
    /\ req = [r \in 1..MaxReqs |-> Idle]
    /\ browser = FreshBrowser

\* Date.now() advances.
Tick ==
    /\ clock < MaxClock
    /\ clock' = clock + 1
    /\ UNCHANGED <<store, tokens, req>>

\* generateUniqueId(prefix)
generateUniqueId(prefix) == Id(prefix, clock)

-----------------------------------------------------------------------------
(* PATCH /api/projects/:projId/expense (the first registration answers     *)
(* every request; the second one on the same path is never reached)        *)

ProjIds == {Id("PROJ", 0), Id("PROJ", 9)}

ExpenseAmounts == {JNull, JText, JNum(0), JNum(1), JNum(2), JNum(3)}

\* expenseAmount == null || isNaN(Number(expenseAmount)) || Number(..) <= 0
InvalidExpense(x) == x.t = "null" \/ x.t = "text" \/ x.v <= 0

\* SELECT BUDGET, SPENT, PNAME FROM PROJECT WHERE PROJ_ID = :projId
SelectProject(projId) == {p \in project : p.projId = projId}

\* const newSpent = project.SPENT + amountToAdd
NewSpent(row, amountToAdd) == row.spent + amountToAdd

\* The check as it was before the route was corrected: nothing is blocked.
OverBudgetUnchecked(row, newSpent) == FALSE

\* The expense alone compared with the budget, SPENT forgotten.
OverBudgetAmountOnly(row, newSpent) == newSpent - row.spent > row.budget

\* The check with >= in the place of >.
OverBudgetAtLimit(row, newSpent) == newSpent >= row.budget

\* if (newSpent > project.BUDGET)
OverBudget(row, newSpent) == newSpent > row.budget

\* The UPDATE without its WHERE clause.
UpdateSpentEveryRow(projId, newSpent) ==
    {[p EXCEPT !.spent = newSpent] : p \in project}

\* UPDATE PROJECT SET SPENT = :newSpent WHERE PROJ_ID = :projId
UpdateSpent(projId, newSpent) ==
    {IF p.projId = projId THEN [p EXCEPT !.spent = newSpent] ELSE p :
        p \in project}

\* Middleware, validation of the body, getConnection.
ExpenseStart(r, tok, projId, expenseAmount) ==
    /\ CanStart(r)
    /\ LET body == [projId |-> projId, expenseAmount |-> expenseAmount]
       IN req' = [req EXCEPT ![r] =
            IF StaffChain(tok).kind # "next"
            THEN Refused("expense", tok, StaffChain(tok))
            ELSE IF InvalidExpense(expenseAmount)
            THEN Answered("expense", tok, body, NoBody,
                          Resp(400, "Validation", NoData))
            ELSE Waiting("expense", "select", tok, body, NoBody)]
    /\ UNCHANGED <<clock, store, tokens>>

\* The SELECT and the budget check on the row it returned.
ExpenseSelect(r) ==
    /\ req[r].op = "expense" /\ req[r].pc = "select"
    /\ LET rq == req[r]
           rows == SelectProject(rq.body.projId)
           row == CHOOSE p \in rows : TRUE
           amountToAdd == rq.body.expenseAmount.v
           newSpent == NewSpent(row, amountToAdd)
       IN req' = [req EXCEPT ![r] =
            IF rows = {}
            THEN Answered("expense", rq.user, rq.body, NoBody,
                          Resp(404, "NotFound", NoData))
            ELSE IF OverBudget(row, newSpent)
            THEN Answered("expense", rq.user, rq.body,
                          [budget |-> row.budget, spent |-> row.spent,
                           newSpent |-> newSpent],
                          Resp(400, "BudgetExceeded",
                               [budget |-> row.budget,
                                remaining |-> row.budget - row.spent,
                                attempted |-> amountToAdd]))
            ELSE Waiting("expense", "update", rq.user, rq.body,
                         [budget |-> row.budget, spent |-> row.spent,
                          newSpent |-> newSpent])]
    /\ UNCHANGED <<clock, store, tokens>>

\* The UPDATE (committed at once) and the 200 answer.
ExpenseUpdate(r) ==
    /\ req[r].op = "expense" /\ req[r].pc = "update"
    /\ LET rq == req[r]
       IN /\ project' = UpdateSpent(rq.body.projId, rq.local.newSpent)
          /\ req' = [req EXCEPT ![r] =
                Answered("expense", rq.user, rq.body, rq.local,
                         Resp(200, "OK",
                              [newSpentTotal |-> rq.local.newSpent]))]
    /\ UNCHANGED <<clock, creds, staff, donor, campaign, donation, tokens>>

-----------------------------------------------------------------------------
(* POST /api/donations (the first registration answers every request; the  *)
(* second one, which would also add to CAMPAIGN.AMOUNT_COLLECTED, is never *)
(* reached)                                                                *)

CampIds == {Id("CAMP", 0), Id("CAMP", -1), Id("CAMP", 9), NoId}

DonationAmounts == {JNull, JText, JNum(0), JNum(-1), JNum(2), JNum(3)}

\* The validation without the comparison amount <= 0.
InvalidDonationNoSign(campId, amount) == campId = NoId \/ Falsy(amount)

\* !campId || !amount || amount <= 0
InvalidDonation(campId, amount) ==
    campId = NoId \/ Falsy(amount) \/ NotPositive(amount)

\* SELECT STATUS FROM CAMPAIGN WHERE CAMP_ID = :campId
SelectCampaign(campId) == {c \in campaign : c.campId = campId}

\* The status the check saw: "ABSENT" when the SELECT returned no row.
SeenStatus(campId) ==
    IF SelectCampaign(campId) = {} THEN "ABSENT"
    ELSE (CHOOSE c \in SelectCampaign(campId) : TRUE).status

\* The check without the comparison of STATUS.
CampaignRefusedIfAbsent(seen) == seen = "ABSENT"

\* if (campCheck.rows.length === 0 || campCheck.rows[0].STATUS !== 'ACTIVE')
CampaignRefused(seen) == seen = "ABSENT" \/ seen # "ACTIVE"

\* The answer of the refused donation: one 404 for both cases.
RefusedAnswer(seen) == Resp(404, "NotFoundOrInactive", NoData)

\* A write that replaces the donor's earlier row for the campaign.
UpsertDonation(row) ==
    {d \in donation : ~(d.donorId = row.donorId /\ d.campId = row.campId)}
        \cup {row}

\* INSERT INTO DONATION (D_ID, DONOR_ID, CAMP_ID, AMOUNT, ...)
InsertDonation(row) == donation \cup {row}

\* The INSERT fails: D_ID is taken (ORA-00001), the amount is no number
\* (ORA-01722), or the donor or the campaign does not exist (ORA-02291).
DonationInsertFails(row, amount) ==
    \/ \E d \in donation : d.dId = row.dId
    \/ amount.t # "num"
    \/ ~\E d \in donor : d.donorId = row.donorId
    \/ ~\E c \in campaign : c.campId = row.campId

\* authenticateToken, the role check, the validation, the id, getConnection.
DonateStart(r, tok, campId, amount) ==
    /\ CanStart(r)
    /\ LET body == [campId |-> campId, amount |-> amount]
       IN req' = [req EXCEPT ![r] =
            IF authenticateToken(tok).kind # "next"
            THEN Refused("donate", tok, authenticateToken(tok))
            ELSE IF tok.userType # "DONOR"
            THEN Answered("donate", tok, NoBody, NoBody,
                          Resp(403, "Forbidden", NoData))
            ELSE IF InvalidDonation(campId, amount)
            THEN Answered("donate", tok, body, NoBody,
                          Resp(400, "Validation", NoData))
            ELSE Waiting("donate", "check", tok, body,
                         [donId |-> generateUniqueId("D"), seen |-> "none"])]
    /\ UNCHANGED <<clock, store, tokens>>

\* The campaign status check.
DonateCheck(r) ==
    /\ req[r].op = "donate" /\ req[r].pc = "check"
    /\ LET rq == req[r]
           seen == SeenStatus(rq.body.campId)
           local == [rq.local EXCEPT !.seen = seen]
       IN req' = [req EXCEPT ![r] =
            IF CampaignRefused(seen)
            THEN Answered("donate", rq.user, rq.body, local,
                          RefusedAnswer(seen))
            ELSE Waiting("donate", "insert", rq.user, rq.body, local)]
    /\ UNCHANGED <<clock, store, tokens>>

\* The INSERT (committed at once) and the 201 answer, or the 500 of the catch.
DonateInsert(r) ==
    /\ req[r].op = "donate" /\ req[r].pc = "insert"
    /\ LET rq == req[r]
           row == [dId |-> rq.local.donId, donorId |-> rq.user.primaryId,
                   campId |-> rq.body.campId, amount |-> rq.body.amount.v]
       IN IF DonationInsertFails(row, rq.body.amount)
          THEN /\ req' = [req EXCEPT ![r] =
                    Answered("donate", rq.user, rq.body, rq.local,
                             Resp(500, "Internal", NoData))]
               /\ UNCHANGED donation
          ELSE /\ donation' = InsertDonation(row)
               /\ req' = [req EXCEPT ![r] =
                    Answered("donate", rq.user, rq.body, rq.local,
                             Resp(201, "Created", [donId |-> row.dId]))]
    /\ UNCHANGED <<clock, creds, staff, donor, campaign, project, tokens>>

-----------------------------------------------------------------------------
(* GET /api/campaigns/financial-summary                                    *)

\* NVL(SUM(D.AMOUNT), 0) of the LEFT JOIN of CAMPAIGN with DONATION
TotalRaised(campId) == SumAmounts({d \in donation : d.campId = campId})

\* The percentage cut after two decimals instead of rounded.
PercentMetTruncated(raised, goal) ==
    IF goal > 0 THEN (raised * 10000) \div goal ELSE 0

\* parseFloat(((TOTAL_RAISED / GOAL_AMOUNT) * 100).toFixed(2)), in hundredths
\* of a percent; 0 when GOAL_AMOUNT is not above 0.
PercentMet(raised, goal) ==
    IF goal > 0 THEN (raised * 10000 * 2 + goal) \div (2 * goal) ELSE 0

FinancialSummary ==
    {[campId |-> c.campId, cName |-> c.cName, goalAmount |-> c.goalAmount,
      status |-> c.status, totalRaised |-> TotalRaised(c.campId),
      percentMet |-> PercentMet(TotalRaised(c.campId), c.goalAmount)] :
        c \in campaign}

Summary(r, tok) ==
    /\ CanStart(r)
    /\ req' = [req EXCEPT ![r] =
            IF StaffChain(tok).kind # "next"
            THEN Refused("summary", tok, StaffChain(tok))
            ELSE Answered("summary", tok, NoBody, NoBody,
                          Resp(200, "OK", [summary |-> FinancialSummary]))]
    /\ UNCHANGED <<clock, store, tokens>>

-----------------------------------------------------------------------------
(* GET /api/donations/history and GET /api/donations/:donId (the first     *)
(* registration)                                                           *)

DonIds == {Id("D", t) : t \in -1 .. MaxClock}

\* DONATION JOIN CAMPAIGN, filtered by DONOR_ID for a donor.
HistoryRows(user) ==
    {d \in donation :
        /\ \E c \in campaign : c.campId = d.campId
        /\ user.userType = "DONOR" => d.donorId = user.primaryId}

\* The history without the WHERE D.DONOR_ID = :donorId of the donor branch.
HistoryRowsUnfiltered(user) ==
    {d \in donation : \E c \in campaign : c.campId = d.campId}

History(r, tok) ==
    /\ CanStart(r)
    /\ req' = [req EXCEPT ![r] =
            IF authenticateToken(tok).kind # "next"
            THEN Refused("history", tok, authenticateToken(tok))
            ELSE Answered("history", tok, NoBody, NoBody,
                          Resp(200, "OK", [history |-> HistoryRows(tok)]))]
    /\ UNCHANGED <<clock, store, tokens>>

\* DONATION JOIN CAMPAIGN JOIN DONOR JOIN NEW_CREDENTIALS WHERE D_ID = :donId
ReceiptRows(donId) ==
    {d \in donation :
        /\ d.dId = donId
        /\ \E c \in campaign : c.campId = d.campId
        /\ \E n \in donor : /\ n.donorId = d.donorId
                            /\ \E u \in creds : u.userId = n.userId}

\* The ownership check without the comparison of the donor ids.
ReceiptDeniedNever(user, row) == FALSE

\* if (userType === 'DONOR' && donation.DONOR_ID !== primaryId)
ReceiptDenied(user, row) ==
    user.userType = "DONOR" /\ row.donorId # user.primaryId

Receipt(r, tok, donId) ==
    /\ CanStart(r)
    /\ LET body == [donId |-> donId]
           rows == ReceiptRows(donId)
           row == CHOOSE d \in rows : TRUE
       IN req' = [req EXCEPT ![r] =
            IF authenticateToken(tok).kind # "next"
            THEN Refused("receipt", tok, authenticateToken(tok))
            ELSE IF rows = {}
            THEN Answered("receipt", tok, body, NoBody,
                          Resp(404, "NotFound", NoData))
            ELSE IF ReceiptDenied(tok, row)
            THEN Answered("receipt", tok, body, NoBody,
                          Resp(403, "Forbidden", NoData))
            ELSE Answered("receipt", tok, body, NoBody,
                          Resp(200, "OK", [donation |-> row]))]
    /\ UNCHANGED <<clock, store, tokens>>

-----------------------------------------------------------------------------
(* POST /api/campaigns and PATCH /api/campaigns/:campId/status             *)

CampaignNames == {"", "Flood relief", "School kits", "Food bank"}

GoalAmounts == {JText, JNum(0), JNum(-5), JNum(20)}

\* A date that the body does not carry.
NoDate == 0

Dates == {NoDate, 1, 2}

\* INSERT INTO CAMPAIGN fails with ORA-00001: CAMP_ID or C_NAME is taken.
CampaignInsertConflict(campId, cName) ==
    \E c \in campaign : c.campId = campId \/ c.cName = cName

CreateCampaign(r, tok, cName, goalAmount, sDate, eDate) ==
    /\ CanStart(r)
    /\ LET body == [cName |-> cName, goalAmount |-> goalAmount,
                    sDate |-> sDate, eDate |-> eDate]
           campId == generateUniqueId("CAMP")
           row == [campId |-> campId, cName |-> cName, status |-> "ACTIVE",
                   sDate |-> sDate, eDate |-> eDate,
                   goalAmount |-> goalAmount.v, manager |-> tok.primaryId]
       IN IF StaffChain(tok).kind # "next"
          THEN /\ req' = [req EXCEPT ![r] =
                    Refused("createCampaign", tok, StaffChain(tok))]
               /\ UNCHANGED campaign
          ELSE IF \/ cName = "" \/ Falsy(goalAmount)
                  \/ sDate = NoDate \/ eDate = NoDate
          THEN /\ req' = [req EXCEPT ![r] =
                    Answered("createCampaign", tok, body, NoBody,
                             Resp(400, "Validation", NoData))]
               /\ UNCHANGED campaign
          ELSE IF goalAmount.t # "num"
          THEN /\ req' = [req EXCEPT ![r] =
                    Answered("createCampaign", tok, body, NoBody,
                             Resp(500, "Internal", NoData))]
               /\ UNCHANGED campaign
          ELSE IF CampaignInsertConflict(campId, cName)
          THEN /\ req' = [req EXCEPT ![r] =
                    Answered("createCampaign", tok, body, NoBody,
                             Resp(409, "Conflict", NoData))]
               /\ UNCHANGED campaign
          ELSE /\ campaign' = campaign \cup {row}
               /\ req' = [req EXCEPT ![r] =
                    Answered("createCampaign", tok, body, NoBody,
                             Resp(201, "Created", [campId |-> campId]))]
    /\ UNCHANGED <<clock, creds, staff, donor, project, donation, tokens>>

\* A status that is no string: the number 5 of a JSON body.
NotAString == "<5>"

StatusInputs == {"", "ACTIVE", "completed", "CANCELLED", "PAUSED", NotAString}

validStatuses == {"ACTIVE", "COMPLETED", "CANCELLED"}

\* UPDATE CAMPAIGN SET STATUS = :upperStatus WHERE CAMP_ID = :campId
UpdateStatus(campId, upperStatus) ==
    {IF c.campId = campId THEN [c EXCEPT !.status = upperStatus] ELSE c :
        c \in campaign}

SetStatus(r, tok, campId, status) ==
    /\ CanStart(r)
    /\ LET body == [campId |-> campId, status |-> status]
           upperStatus == toUpperCase(status)
       IN IF StaffChain(tok).kind # "next"
          THEN /\ req' = [req EXCEPT ![r] =
                    Refused("setStatus", tok, StaffChain(tok))]
               /\ UNCHANGED campaign
          ELSE IF status = ""
          THEN /\ req' = [req EXCEPT ![r] =
                    Answered("setStatus", tok, body, NoBody,
                             Resp(400, "Validation", NoData))]
               /\ UNCHANGED campaign
          ELSE IF status = NotAString
          THEN \* status.toUpperCase is not a function: the catch answers
               /\ req' = [req EXCEPT ![r] =
                    Answered("setStatus", tok, body, NoBody,
                             Resp(500, "Internal", NoData))]
               /\ UNCHANGED campaign
          ELSE IF upperStatus \notin validStatuses
          THEN /\ req' = [req EXCEPT ![r] =
                    Answered("setStatus", tok, body, NoBody,
                             Resp(400, "Validation", NoData))]
               /\ UNCHANGED campaign
          ELSE IF SelectCampaign(campId) = {}
          THEN /\ req' = [req EXCEPT ![r] =
                    Answered("setStatus", tok, body, NoBody,
                             Resp(404, "NotFound", NoData))]
               /\ UNCHANGED campaign
          ELSE /\ campaign' = UpdateStatus(campId, upperStatus)
               /\ req' = [req EXCEPT ![r] =
                    Answered("setStatus", tok, body, NoBody,
                             Resp(200, "OK", NoData))]
    /\ UNCHANGED <<clock, creds, staff, donor, project, donation, tokens>>

-----------------------------------------------------------------------------
(* POST /api/projects and PATCH /api/projects/:projId/link-campaign        *)

ProjectNames == {"", "Well"}

Budgets == {JText, JNum(0), JNum(-5), JNum(5)}

\* INSERT INTO PROJECT fails with ORA-00001: PROJ_ID is taken.
ProjectInsertConflict(projId) == \E p \in project : p.projId = projId

\* A store without the foreign key from PROJECT.CAMP_ID to CAMPAIGN.
ForeignKeyUnchecked(campId) == FALSE

\* ORA-02291: CAMP_ID names no campaign (a null CAMP_ID is not checked).
ForeignKeyViolated(campId) ==
    campId # NoId /\ SelectCampaign(campId) = {}

CreateProject(r, tok, pName, budget, sDate, campId) ==
    /\ CanStart(r)
    /\ LET body == [pName |-> pName, budget |-> budget, sDate |-> sDate,
                    campId |-> campId]
           projId == generateUniqueId("PROJ")
           row == [projId |-> projId, pName |-> pName, budget |-> budget.v,
                   spent |-> 0, status |-> "ONGOING", sDate |-> sDate,
                   overseer |-> tok.primaryId, campId |-> campId]
       IN IF StaffChain(tok).kind # "next"
          THEN /\ req' = [req EXCEPT ![r] =
                    Refused("createProject", tok, StaffChain(tok))]
               /\ UNCHANGED project
          ELSE IF pName = "" \/ Falsy(budget) \/ sDate = NoDate
          THEN /\ req' = [req EXCEPT ![r] =
                    Answered("createProject", tok, body, NoBody,
                             Resp(400, "Validation", NoData))]
               /\ UNCHANGED project
          ELSE IF budget.t # "num"
          THEN \* Number(budget) is NaN: the INSERT fails
               /\ req' = [req EXCEPT ![r] =
                    Answered("createProject", tok, body, NoBody,
                             Resp(500, "Internal", NoData))]
               /\ UNCHANGED project
          ELSE IF ForeignKeyViolated(campId)
          THEN /\ req' = [req EXCEPT ![r] =
                    Answered("createProject", tok, body, NoBody,
                             Resp(400, "InvalidCampaign", NoData))]
               /\ UNCHANGED project
          ELSE IF ProjectInsertConflict(projId)
          THEN /\ req' = [req EXCEPT ![r] =
                    Answered("createProject", tok, body, NoBody,
                             Resp(409, "Conflict", NoData))]
               /\ UNCHANGED project
          ELSE /\ project' = project \cup {row}
               /\ req' = [req EXCEPT ![r] =
                    Answered("createProject", tok, body, NoBody,
                             Resp(201, "Created", [projId |-> projId]))]
    /\ UNCHANGED <<clock, creds, staff, donor, campaign, donation, tokens>>

\* UPDATE PROJECT SET CAMP_ID = :campId WHERE PROJ_ID = :projId
UpdateLink(projId, campId) ==
    {IF p.projId = projId THEN [p EXCEPT !.campId = campId] ELSE p :
        p \in project}

LinkCampaign(r, tok, projId, campId) ==
    /\ CanStart(r)
    /\ LET body == [projId |-> projId, campId |-> campId]
       IN IF StaffChain(tok).kind # "next"
          THEN /\ req' = [req EXCEPT ![r] =
                    Refused("linkCampaign", tok, StaffChain(tok))]
               /\ UNCHANGED project
          ELSE IF campId = NoId
          THEN /\ req' = [req EXCEPT ![r] =
                    Answered("linkCampaign", tok, body, NoBody,
                             Resp(400, "Validation", NoData))]
               /\ UNCHANGED project
          ELSE IF SelectProject(projId) = {}
          THEN /\ req' = [req EXCEPT ![r] =
                    Answered("linkCampaign", tok, body, NoBody,
                             Resp(404, "NotFound", NoData))]
               /\ UNCHANGED project
          ELSE IF ForeignKeyViolated(campId)
          THEN /\ req' = [req EXCEPT ![r] =
                    Answered("linkCampaign", tok, body, NoBody,
                             Resp(400, "InvalidCampaign", NoData))]
               /\ UNCHANGED project
          ELSE /\ project' = UpdateLink(projId, campId)
               /\ req' = [req EXCEPT ![r] =
                    Answered("linkCampaign", tok, body, NoBody,
                             Resp(200, "OK", NoData))]
    /\ UNCHANGED <<clock, creds, staff, donor, campaign, donation, tokens>>

-----------------------------------------------------------------------------
(* POST /api/auth/signup and POST /api/auth/login                          *)

\* /^\d{12}$/.test(aadharNo)
ValidAadhar(aadharNo) ==
    aadharNo \in {"111111111111", "444444444444", "555555555555"}

\* /^\S+@\S+\.\S+$/.test(email)
ValidEmail(email) ==
    email \in {"staff@ngo.org", "new@mail.org", "other@mail.org"}

\* password.length
PasswordLength(password) == IF password = "short" THEN 5 ELSE 7

\* upperUserType.slice(0, 1)
FirstLetter(upperUserType) == IF upperUserType = "STAFF" THEN "S" ELSE "D"

\* The 400 answers of the input validation, in the order of the code.
SignupInvalid(aadharNo, password, email, userType) ==
    \/ toUpperCase(userType) \notin {"STAFF", "DONOR"}
    \/ ~ValidAadhar(aadharNo)
    \/ ~ValidEmail(email)
    \/ PasswordLength(password) < 6

\* NEW_CREDENTIALS without the UNIQUE constraint on EMAIL.
CredentialConflictNoEmail(row) ==
    \E u \in creds : u.userId = row.userId \/ u.aadharNo = row.aadharNo

\* INSERT INTO NEW_CREDENTIALS fails with ORA-00001: USER_ID, AADHAR_NO or
\* EMAIL is taken.
CredentialConflict(row) ==
    \E u \in creds : \/ u.userId = row.userId
                     \/ u.aadharNo = row.aadharNo
                     \/ u.email = row.email

\* INSERT INTO STAFF / DONOR fails with ORA-00001: the profile id is taken.
ProfileConflict(upperUserType, primaryId) ==
    IF upperUserType = "STAFF"
    THEN \E p \in staff : p.staffId = primaryId
    ELSE \E p \in donor : p.donorId = primaryId

\* connection.rollback() in the catch block: it undoes the statements of the
\* connection that are not committed yet.  Every statement of the handler
\* ran with autoCommit: true, so none is.
Rollback(rows, uncommitted) == rows \ uncommitted

\* Validation, the password hash, the two ids, getConnection.  Date.now() is
\* read once for each id and may advance in between (later).
SignupStart(r, aadharNo, password, email, userType, later) ==
    /\ CanStart(r)
    /\ later \in {0, 1}
    /\ clock + later <= MaxClock
    /\ LET body == [aadharNo |-> aadharNo, password |-> password,
                    email |-> email, userType |-> userType]
           upperUserType == toUpperCase(userType)
           userId == generateUniqueId(upperUserType)
           primaryId == Id(FirstLetter(upperUserType), clock + later)
       IN IF SignupInvalid(aadharNo, password, email, userType)
          THEN /\ later = 0
               /\ req' = [req EXCEPT ![r] =
                    Answered("signup", MissingToken, body, NoBody,
                             Resp(400, "Validation", NoData))]
               /\ UNCHANGED clock
          ELSE /\ req' = [req EXCEPT ![r] =
                    Waiting("signup", "cred", MissingToken, body,
                            [userId |-> userId, primaryId |-> primaryId,
                             upperUserType |-> upperUserType,
                             hashedPassword |-> bcryptHash(password)])]
               /\ clock' = clock + later
    /\ UNCHANGED <<store, tokens>>

\* The credential INSERT (committed at once), or the catch block.
SignupCred(r) ==
    /\ req[r].op = "signup" /\ req[r].pc = "cred"
    /\ LET rq == req[r]
           row == [userId |-> rq.local.userId, aadharNo |-> rq.body.aadharNo,
                   email |-> rq.body.email,
                   password |-> rq.local.hashedPassword,
                   userType |-> rq.local.upperUserType]
       IN IF CredentialConflict(row)
          THEN /\ creds' = Rollback(creds, {})
               /\ req' = [req EXCEPT ![r] =
                    Answered("signup", rq.user, rq.body, rq.local,
                             Resp(409, "Conflict", NoData))]
          ELSE /\ creds' = creds \cup {row}
               /\ req' = [req EXCEPT ![r] =
                    Waiting("signup", "profile", rq.user, rq.body, rq.local)]
    /\ UNCHANGED <<clock, staff, donor, campaign, project, donation, tokens>>

\* The profile INSERT and the 201 answer, or the catch block: the rollback
\* finds nothing uncommitted, and ORA-00001 is answered 409.
SignupProfile(r) ==
    /\ req[r].op = "signup" /\ req[r].pc = "profile"
    /\ LET rq == req[r]
           upperUserType == rq.local.upperUserType
           primaryId == rq.local.primaryId
       IN IF ProfileConflict(upperUserType, primaryId)
          THEN /\ creds' = Rollback(creds, {})
               /\ UNCHANGED <<staff, donor>>
               /\ req' = [req EXCEPT ![r] =
                    Answered("signup", rq.user, rq.body, rq.local,
                             Resp(409, "Conflict", NoData))]
          ELSE /\ IF upperUserType = "STAFF"
                  THEN /\ staff' = staff \cup
                            {[staffId |-> primaryId,
                              userId |-> rq.local.userId]}
                       /\ UNCHANGED donor
                  ELSE /\ donor' = donor \cup
                            {[donorId |-> primaryId,
                              userId |-> rq.local.userId]}
                       /\ UNCHANGED staff
               /\ UNCHANGED creds
               /\ req' = [req EXCEPT ![r] =
                    Answered("signup", rq.user, rq.body, rq.local,
                             Resp(201, "Created",
                                  [userId |-> primaryId,
                                   userType |-> upperUserType]))]
    /\ UNCHANGED <<clock, campaign, project, donation, tokens>>

LoginEmails == {"", "ann@mail.org", "new@mail.org"}

LoginPasswords == {"", "annpw1", "secret1"}

\* SELECT STAFF_ID FROM STAFF / SELECT DONOR_ID FROM DONOR WHERE USER_ID = ..
\* (NoId stands for the null of an empty result)
ProfileIdOf(user) ==
    IF user.userType = "STAFF"
    THEN IF \E p \in staff : p.userId = user.userId
         THEN (CHOOSE p \in staff : p.userId = user.userId).staffId
         ELSE NoId
    ELSE IF user.userType = "DONOR"
    THEN IF \E p \in donor : p.userId = user.userId
         THEN (CHOOSE p \in donor : p.userId = user.userId).donorId
         ELSE NoId
    ELSE NoId

\* A login that registers the email it does not find.
LoginOrRegister(r, email, password) ==
    /\ CanStart(r)
    /\ req' = [req EXCEPT ![r] =
            Answered("login", MissingToken,
                     [email |-> email, password |-> password], NoBody,
                     Resp(401, "AuthFailed", NoData))]
    /\ creds' = creds \cup
            {[userId |-> generateUniqueId("DONOR"), aadharNo |-> "",
              email |-> email, password |-> bcryptHash(password),
              userType |-> "DONOR"]}
    /\ UNCHANGED <<clock, staff, donor, campaign, project, donation, tokens>>

Login(r, email, password) ==
    /\ CanStart(r)
    /\ LET body == [email |-> email, password |-> password]
           rows == {u \in creds : u.email = email}
           user == CHOOSE u \in rows : TRUE
           primaryId == ProfileIdOf(user)
           token == jwtSign(user.userId, primaryId, user.userType)
       IN IF email = "" \/ password = ""
          THEN /\ req' = [req EXCEPT ![r] =
                    Answered("login", MissingToken, body, NoBody,
                             Resp(400, "Validation", NoData))]
               /\ UNCHANGED tokens
          ELSE IF rows = {} \/ ~bcryptCompare(password, user.password)
          THEN /\ req' = [req EXCEPT ![r] =
                    Answered("login", MissingToken, body, NoBody,
                             Resp(401, "AuthFailed", NoData))]
               /\ UNCHANGED tokens
          ELSE IF primaryId = NoId
          THEN /\ req' = [req EXCEPT ![r] =
                    Answered("login", MissingToken, body, NoBody,
                             Resp(500, "ProfileMissing", NoData))]
               /\ UNCHANGED tokens
          ELSE /\ req' = [req EXCEPT ![r] =
                    Answered("login", MissingToken, body, NoBody,
                             Resp(200, "OK", [token |-> token]))]
               /\ tokens' = tokens \cup {token}
    /\ UNCHANGED <<clock, store>>

-----------------------------------------------------------------------------

\* Expense requests on the projects.
ExpenseBodies == [projId : ProjIds, expenseAmount : ExpenseAmounts]

NextProject ==
    \/ \E r \in DOMAIN req, tok \in Callers, b \in ExpenseBodies :
          ExpenseStart(r, tok, b.projId, b.expenseAmount) /\ UNCHANGED browser
    \/ \E r \in DOMAIN req : ExpenseSelect(r) /\ UNCHANGED browser
    \/ \E r \in DOMAIN req : ExpenseUpdate(r) /\ UNCHANGED browser

SpecProject == Init /\ [][NextProject]_vars

\* Donations and campaign status changes.  The bodies: the amounts for the
\* open campaign, and the amount 2 for every campaign id; the statuses for the
\* open campaign, and a status for a campaign id that does not exist.
DonationBodies ==
    {b \in [campId : CampIds, amount : DonationAmounts] :
        b.campId = Id("CAMP", 0) \/ b.amount = JNum(2)}

StatusBodies ==
    {b \in [campId : {Id("CAMP", 0), Id("CAMP", 9)},
            status : StatusInputs \ {"", NotAString}] :
        b.campId = Id("CAMP", 0) \/ b.status = "ACTIVE"}

DonorCallers == {tok \in tokens : tok.userType = "DONOR"}

StaffCallers == {tok \in tokens : tok.userType = "STAFF"}

NextDonation ==
    \/ Tick /\ UNCHANGED browser
    \/ \E r \in DOMAIN req, tok \in DonorCallers, b \in DonationBodies :
          DonateStart(r, tok, b.campId, b.amount) /\ UNCHANGED browser
    \/ \E r \in DOMAIN req : DonateCheck(r) /\ UNCHANGED browser
    \/ \E r \in DOMAIN req : DonateInsert(r) /\ UNCHANGED browser
    \/ \E r \in DOMAIN req, tok \in StaffCallers, b \in StatusBodies :
          SetStatus(r, tok, b.campId, b.status) /\ UNCHANGED browser

SpecDonation == Init /\ [][NextDonation]_vars

\* Donations to the open campaign and the reads of donations.
NextReads ==
    \/ Tick /\ UNCHANGED browser
    \/ \E r \in DOMAIN req, tok \in Callers :
          DonateStart(r, tok, Id("CAMP", 0), JNum(3)) /\ UNCHANGED browser
    \/ \E r \in DOMAIN req : DonateCheck(r) /\ UNCHANGED browser
    \/ \E r \in DOMAIN req : DonateInsert(r) /\ UNCHANGED browser
    \/ \E r \in DOMAIN req, tok \in Callers : Summary(r, tok)
          /\ UNCHANGED browser
    \/ \E r \in DOMAIN req, tok \in Callers : History(r, tok)
          /\ UNCHANGED browser
    \/ \E r \in DOMAIN req, tok \in Callers, donId \in DonIds :
          Receipt(r, tok, donId) /\ UNCHANGED browser

SpecReads == Init /\ [][NextReads]_vars

\* Signup and login.  The bodies: the valid registrations of a new and of a
\* registered email or Aadhar number, a second new user, and one body for each
\* validation rule (the short password comes with a registered Aadhar number).
SignupBodies ==
    { [aadharNo |-> "444444444444", password |-> "secret1",
       email |-> "new@mail.org", userType |-> "STAFF"],
      [aadharNo |-> "444444444444", password |-> "secret1",
       email |-> "new@mail.org", userType |-> "donor"],
      [aadharNo |-> "111111111111", password |-> "secret1",
       email |-> "new@mail.org", userType |-> "STAFF"],
      [aadharNo |-> "444444444444", password |-> "secret1",
       email |-> "staff@ngo.org", userType |-> "donor"],
      [aadharNo |-> "444444444444", password |-> "secret1",
       email |-> "new@mail.org", userType |-> "ADMIN"],
      [aadharNo |-> "12345", password |-> "secret1",
       email |-> "new@mail.org", userType |-> "STAFF"],
      [aadharNo |-> "444444444444", password |-> "secret1",
       email |-> "not-an-email", userType |-> "STAFF"],
      [aadharNo |-> "111111111111", password |-> "short",
       email |-> "new@mail.org", userType |-> "STAFF"],
      [aadharNo |-> "555555555555", password |-> "secret1",
       email |-> "other@mail.org", userType |-> "STAFF"] }

NextAuth ==
    \/ Tick /\ UNCHANGED browser
    \/ \E r \in DOMAIN req, b \in SignupBodies, later \in {0, 1} :
          SignupStart(r, b.aadharNo, b.password, b.email, b.userType, later)
          /\ UNCHANGED browser
    \/ \E r \in DOMAIN req : SignupCred(r) /\ UNCHANGED browser
    \/ \E r \in DOMAIN req : SignupProfile(r) /\ UNCHANGED browser
    \/ \E r \in DOMAIN req, email \in LoginEmails,
          password \in LoginPasswords : Login(r, email, password)
          /\ UNCHANGED browser

SpecAuth == Init /\ [][NextAuth]_vars

\* The state-changing routes behind the role checks, each with a body that
\* passes its validation and one that does not.
NextAccess ==
    \/ \E r \in DOMAIN req, tok \in Callers, amt \in {JNum(0), JNum(2)} :
          ExpenseStart(r, tok, Id("PROJ", 0), amt) /\ UNCHANGED browser
    \/ \E r \in DOMAIN req : ExpenseSelect(r) /\ UNCHANGED browser
    \/ \E r \in DOMAIN req : ExpenseUpdate(r) /\ UNCHANGED browser
    \/ \E r \in DOMAIN req, tok \in Callers, amt \in {JNum(0), JNum(2)} :
          DonateStart(r, tok, Id("CAMP", 0), amt) /\ UNCHANGED browser
    \/ \E r \in DOMAIN req : DonateCheck(r) /\ UNCHANGED browser
    \/ \E r \in DOMAIN req : DonateInsert(r) /\ UNCHANGED browser
    \/ \E r \in DOMAIN req, tok \in Callers,
          status \in {"CANCELLED", "PAUSED"} :
          SetStatus(r, tok, Id("CAMP", 0), status) /\ UNCHANGED browser
    \/ \E r \in DOMAIN req, tok \in Callers,
          cName \in {"", "School kits"} :
          CreateCampaign(r, tok, cName, JNum(20), 1, 2) /\ UNCHANGED browser
    \/ \E r \in DOMAIN req, tok \in Callers, budget \in {JNum(0), JNum(5)} :
          CreateProject(r, tok, "Well", budget, 1, NoId) /\ UNCHANGED browser
    \/ \E r \in DOMAIN req, tok \in Callers,
          campId \in {NoId, Id("CAMP", -1)} :
          LinkCampaign(r, tok, Id("PROJ", 0), campId) /\ UNCHANGED browser

SpecAccess == Init /\ [][NextAccess]_vars

-----------------------------------------------------------------------------
(* Claims about the project budget rule                                    *)

\* The requests answered 200 by the expense route for one project.
AcceptedExpenses(projId) ==
    {r \in DOMAIN req : /\ req[r].op = "expense"
                         /\ req[r].resp.code = 200
                         /\ req[r].body.projId = projId}

RECURSIVE SumExpense(_)
SumExpense(rs) ==
    IF rs = {} THEN 0
    ELSE LET r == CHOOSE x \in rs : TRUE
         IN req[r].body.expenseAmount.v + SumExpense(rs \ {r})

\* SPENT of the project when the server started (0 for a project created
\* since).
InitialSpent(projId) ==
    LET seeded == {p \in SeedProject : p.projId = projId}
    IN IF seeded = {} THEN 0 ELSE (CHOOSE p \in seeded : TRUE).spent

ExpenseInFlight(projId) ==
    \E r \in DOMAIN req : /\ req[r].op = "expense"
                           /\ req[r].pc \in {"select", "update"}
                           /\ req[r].body.projId = projId

\* C1: whatever expense requests run on a project, one after the other or
\* with their SELECT and UPDATE statements interleaved, the stored SPENT of
\* the project is never above its BUDGET.
C1_SpentWithinBudget == \A p \in project : p.spent <= p.budget

\* C1 witness: two expense requests on one project that both read the same
\* SPENT (the second SELECT ran before the first UPDATE) were both accepted.
C1_Witness ==
    \E r, q \in DOMAIN req :
        /\ r # q
        /\ req[r].op = "expense" /\ req[r].resp.code = 200
        /\ req[q].op = "expense" /\ req[q].resp.code = 200
        /\ req[r].body.projId = req[q].body.projId
        /\ req[r].local.spent = req[q].local.spent

\* C2: once no expense request on a project is in flight, its SPENT is the
\* SPENT it started with plus the amounts of the requests answered 200 (the
\* read and the write of a request are one atomic unit, no accepted expense
\* is lost).
C2_NoLostExpense ==
    \A p \in project :
        ~ExpenseInFlight(p.projId) =>
            p.spent = InitialSpent(p.projId)
                        + SumExpense(AcceptedExpenses(p.projId))

\* C4: no step replaces the SPENT of a project by a smaller value.
C4_SpentMonotonic ==
    [][\A p \in project : \A q \in project' :
          q.projId = p.projId => q.spent >= p.spent]_vars

\* C5: an expense request whose SELECT finds the project with
\* amount > BUDGET - SPENT is answered with the budget-exceeded outcome, which
\* reports BUDGET - SPENT as remaining and the amount as attempted, and the
\* step leaves every project row (SPENT and STATUS) as it was.
C5_OverBudgetRejected ==
    [][\A r \in DOMAIN req :
          LET rows == {p \in project : p.projId = req[r].body.projId}
              row == CHOOSE p \in rows : TRUE
              amt == req[r].body.expenseAmount.v
          IN (/\ req[r].op = "expense" /\ req[r].pc = "select"
              /\ req'[r] # req[r]
              /\ rows # {}
              /\ amt > row.budget - row.spent)
             => /\ req'[r].pc = "done"
                /\ req'[r].resp =
                      Resp(400, "BudgetExceeded",
                           [budget |-> row.budget,
                            remaining |-> row.budget - row.spent,
                            attempted |-> amt])
                /\ project' = project]_vars

\* C5 witness: the scaled example, budget 50 and spent 48: an expense of 3 was
\* refused with remaining 2 and attempted 3, and SPENT is still 48.
C5_Witness ==
    \E r \in DOMAIN req :
        /\ req[r].op = "expense" /\ req[r].pc = "done"
        /\ req[r].resp.kind = "BudgetExceeded"
        /\ req[r].resp.data.remaining = 2
        /\ req[r].resp.data.attempted = 3
        /\ \E p \in project : p.projId = req[r].body.projId /\ p.spent = 48

-----------------------------------------------------------------------------
(* Claims about donations                                                  *)

\* The donation requests answered 201 for one campaign.
AcceptedDonations(campId) ==
    {r \in DOMAIN req : /\ req[r].op = "donate"
                        /\ req[r].resp.code = 201
                        /\ req[r].body.campId = campId}

RECURSIVE SumDonated(_)
SumDonated(rs) ==
    IF rs = {} THEN 0
    ELSE LET r == CHOOSE x \in rs : TRUE
         IN req[r].body.amount.v + SumDonated(rs \ {r})

\* The raised total of the campaign when the server started.
InitialRaised(campId) ==
    SumAmounts({d \in SeedDonation : d.campId = campId})

\* C3: in every state, for every campaign, TOTAL_RAISED of the financial
\* summary is the total it started with plus the amounts of the donation
\* requests answered 201 for that campaign, whatever the interleaving of the
\* requests' statements.
C3_RaisedIsSumOfDonations ==
    \A row \in FinancialSummary :
        row.totalRaised = InitialRaised(row.campId)
                            + SumDonated(AcceptedDonations(row.campId))

\* C3 witness: the scaled example, raised 16 of a goal of 20: donations of 3
\* and 2 were both answered 201 and the summary reports 21, 105.00 percent.
C3_Witness ==
    /\ \E r, q \in DOMAIN req :
          /\ req[r].op = "donate" /\ req[r].resp.code = 201
          /\ req[r].body = [campId |-> Id("CAMP", 0), amount |-> JNum(3)]
          /\ req[q].op = "donate" /\ req[q].resp.code = 201
          /\ req[q].body = [campId |-> Id("CAMP", 0), amount |-> JNum(2)]
    /\ \E row \in FinancialSummary :
          /\ row.campId = Id("CAMP", 0)
          /\ row.totalRaised = 21
          /\ row.percentMet = 10500

\* The donation request has run its campaign status check.
DonationChecked(r) ==
    /\ req[r].op = "donate"
    /\ req[r].pc \in {"insert", "done"}
    /\ req[r].resp.kind \notin
          {"Unauthorized", "InvalidToken", "Forbidden", "Validation"}

-----------------------------------------------------------------------------
(* Claims about signup                                                     *)

SignupInFlight ==
    \E r \in DOMAIN req :
        req[r].op = "signup" /\ req[r].pc \in {"cred", "profile"}

\* The profile rows of a credential that match its USER_TYPE.
ProfilesOf(u) ==
    IF u.userType = "STAFF" THEN {p \in staff : p.userId = u.userId}
    ELSE {p \in donor : p.userId = u.userId}

\* C7 as claimed: every signup whose email or Aadhar number is the one of a
\* credential registered at start-up is answered with ConflictError.
C7_Original ==
    \A r \in DOMAIN req :
        (/\ req[r].op = "signup" /\ req[r].pc = "done"
         /\ \E u \in SeedCreds : \/ u.email = req[r].body.email
                                 \/ u.aadharNo = req[r].body.aadharNo)
        => req[r].resp.code = 409

\* C7 as amended: a signup that passed the input validation and whose email
\* or Aadhar number is the one of an existing credential is answered 409
\* ConflictError by its credential INSERT step, and that step adds no
\* NEW_CREDENTIALS, STAFF or DONOR row.
C7_DuplicateRefused ==
    [][\A r \in DOMAIN req :
          (/\ req[r].op = "signup" /\ req[r].pc = "cred"
           /\ req'[r].pc # "cred"
           /\ \E u \in creds : \/ u.email = req[r].body.email
                               \/ u.aadharNo = req[r].body.aadharNo)
          => /\ req'[r].pc = "done"
             /\ req'[r].resp = Resp(409, "Conflict", NoData)
             /\ creds' = creds /\ staff' = staff /\ donor' = donor]_vars

\* C7 witness: a signup with the email of the seeded staff member and a new
\* Aadhar number was answered 409 and the credentials are the seeded ones.
C7_Witness ==
    \E r \in DOMAIN req :
        /\ req[r].op = "signup" /\ req[r].pc = "done"
        /\ req[r].body.email = "staff@ngo.org"
        /\ req[r].body.aadharNo = "444444444444"
        /\ req[r].resp.code = 409
        /\ creds = SeedCreds /\ staff = SeedStaff /\ donor = SeedDonor

\* C8: once no signup is in flight, every NEW_CREDENTIALS row has exactly one
\* profile row of its USER_TYPE (the credential and the profile persist
\* together or not at all).
C8_CredentialHasProfile ==
    ~SignupInFlight => \A u \in creds : Cardinality(ProfilesOf(u)) = 1

-----------------------------------------------------------------------------
(* Claims about access                                                     *)

\* The request was answered in this step by a read of the donations.
ReadAnswered(r) ==
    /\ req[r].pc = "idle"
    /\ req'[r].pc = "done"
    /\ req'[r].op \in {"receipt", "history"}
    /\ req'[r].resp.kind \notin {"Unauthorized", "InvalidToken"}

\* C9: a donor is never sent a donation of another donor: the receipt route
\* answers 403 without data for another donor's donation and the history is
\* exactly the donor's own donations; staff get any receipt and the whole
\* history.
C9_DonorSeesOwnDonations ==
    [][\A r \in DOMAIN req :
          ReadAnswered(r) =>
            LET u == req'[r].user
                op == req'[r].op
                resp == req'[r].resp
                asked == {d \in donation : op = "receipt"
                                           /\ d.dId = req'[r].body.donId}
            IN /\ (op = "receipt" /\ u.userType = "DONOR"
                   /\ \E d \in asked : d.donorId # u.primaryId)
                  => /\ resp.code = 403 /\ resp.kind = "Forbidden"
                     /\ resp.data = NoData
               /\ (op = "receipt" /\ u.userType = "DONOR"
                   /\ resp.code = 200)
                  => resp.data.donation.donorId = u.primaryId
               /\ (op = "history" /\ u.userType = "DONOR")
                  => /\ resp.code = 200
                     /\ resp.data.history =
                          {d \in donation : d.donorId = u.primaryId}
               /\ (op = "receipt" /\ u.userType = "STAFF" /\ asked # {})
                  => /\ resp.code = 200
                     /\ resp.data.donation \in asked
               /\ (op = "history" /\ u.userType = "STAFF")
                  => /\ resp.code = 200
                     /\ resp.data.history = donation]_vars

\* C9 witness: the other donor asked for the receipt of the seeded donation
\* of the first donor and got 403; a staff member asked for it and got it.
C9_Witness ==
    \E r, q \in DOMAIN req :
        /\ req[r].op = "receipt" /\ req[r].user.primaryId = Id("D", -1)
        /\ req[r].body.donId = Id("D", 0)
        /\ req[r].resp.code = 403
        /\ req[q].op = "receipt" /\ req[q].user.userType = "STAFF"
        /\ req[q].body.donId = Id("D", 0)
        /\ req[q].resp.code = 200
        /\ req[q].resp.data.donation.donorId = Id("D", 0)

StaffOps ==
    {"createCampaign", "setStatus", "createProject", "expense",
     "linkCampaign"}

\* The request of an authenticated caller that starts in this step asks for
\* an operation the caller's role may not perform.
WrongRole(r) ==
    /\ req[r].pc = "idle"
    /\ req'[r].pc # "idle"
    /\ req'[r].user.kind = "jwt"
    /\ \/ req'[r].op \in StaffOps /\ req'[r].user.userType # "STAFF"
       \/ req'[r].op = "donate" /\ req'[r].user.userType # "DONOR"

\* C10: createCampaign, setStatus, createProject, recordExpense and
\* linkCampaign asked by an authenticated caller who is not STAFF, and
\* recordDonation asked by one who is not DONOR, are answered 403 Forbidden
\* without data, and the step leaves every table as it was.
C10_RoleAuthorization ==
    [][\A r \in DOMAIN req :
          WrongRole(r) =>
            /\ req'[r].pc = "done"
            /\ req'[r].resp = Resp(403, "Forbidden", NoData)
            /\ store' = store]_vars

\* C10 witness: a donor's createProject and a staff member's donation were
\* both answered 403.
C10_Witness ==
    \E r, q \in DOMAIN req :
        /\ req[r].op = "createProject" /\ req[r].user.userType = "DONOR"
        /\ req[r].resp.code = 403
        /\ req[q].op = "donate" /\ req[q].user.userType = "STAFF"
        /\ req[q].resp.code = 403

-----------------------------------------------------------------------------
(* Claims about the token check                                            *)

\* Every protected route of the model, asked by every caller.
NextGate ==
    \/ NextAccess
    \/ \E r \in DOMAIN req, tok \in Callers : Summary(r, tok)
          /\ UNCHANGED browser
    \/ \E r \in DOMAIN req, tok \in Callers : History(r, tok)
          /\ UNCHANGED browser
    \/ \E r \in DOMAIN req, tok \in Callers,
          donId \in {Id("D", 0), Id("D", 9)} : Receipt(r, tok, donId)
          /\ UNCHANGED browser

SpecGate == Init /\ [][NextGate]_vars

\* The request that starts in this step was answered by authenticateToken:
\* 401 for a missing token, 403 for one that jwt.verify rejects; req.user was
\* not set, the body was not read and no connection was acquired.
StoppedAtGate(r) ==
    /\ req'[r].pc = "done"
    /\ req'[r].resp \in {Resp(401, "Unauthorized", NoData),
                         Resp(403, "InvalidToken", NoData)}
    /\ req'[r].user = MissingToken
    /\ req'[r].body = NoBody /\ req'[r].local = NoBody
    /\ ~req'[r].conn
    /\ store' = store

-----------------------------------------------------------------------------
(* Claims about the DONATION rows                                          *)

\* C12: no step of any route removes or changes a DONATION row: every row of
\* the table before the step is in the table after it, with the same id,
\* donor, campaign and amount.
C12_DonationsAppendOnly ==
    [][\A d \in donation : d \in donation']_vars

\* C12 witness: a donation was recorded, the campaign of the donation was
\* cancelled by a staff member, and the rows of start-up and the new row are
\* in the table.
C12_Witness ==
    \E r, q \in DOMAIN req :
        /\ req[r].op = "donate" /\ req[r].resp.code = 201
        /\ req[q].op = "setStatus" /\ req[q].resp.code = 200
        /\ SeedDonation \subseteq donation
        /\ \E d \in donation \ SeedDonation :
              /\ d.dId = req[r].resp.data.donId
              /\ d.donorId = req[r].user.primaryId
              /\ d.campId = req[r].body.campId
              /\ d.amount = req[r].body.amount.v

\* The amount of the body is missing, zero or negative.
AmountNotPositive(amount) ==
    amount.t = "null" \/ (amount.t = "num" /\ amount.v <= 0)

\* C13: every DONATION row has an amount above 0, and a donor's donation
\* request whose amount is missing, zero or negative is answered 400 in the
\* step in which it arrives, without an id, a connection or a write.
C13_AmountPositive ==
    [][/\ \A d \in donation \cup donation' : d.amount > 0
       /\ \A r \in DOMAIN req :
            (/\ req[r].pc = "idle" /\ req'[r].pc # "idle"
             /\ req'[r].op = "donate"
             /\ req'[r].body # NoBody
             /\ AmountNotPositive(req'[r].body.amount))
            => /\ req'[r].pc = "done"
               /\ req'[r].resp = Resp(400, "Validation", NoData)
               /\ req'[r].local = NoBody
               /\ store' = store]_vars

\* C13 witness: a donation of -1 and a donation of 0 to the open campaign
\* were both answered 400 and the table holds the rows of start-up.
C13_Witness ==
    \E r, q \in DOMAIN req :
        /\ req[r].op = "donate" /\ req[r].resp.code = 400
        /\ req[r].body = [campId |-> Id("CAMP", 0), amount |-> JNum(-1)]
        /\ req[q].op = "donate" /\ req[q].resp.code = 400
        /\ req[q].body = [campId |-> Id("CAMP", 0), amount |-> JNum(0)]
        /\ donation = SeedDonation

-----------------------------------------------------------------------------
(* The router: the routes of the paths that are registered twice, in the   *)
(* order of their registration                                             *)

\* A path is the sequence of its segments; ":p" stands for a route parameter.
Registrations ==
    << [line |-> 575, method |-> "POST", path |-> <<"donations">>,
        chain |-> <<"authenticateToken">>, writes |-> "DONATION row"],
       [line |-> 646, method |-> "GET", path |-> <<"donations", "history">>,
        chain |-> <<"authenticateToken">>, writes |-> "nothing"],
       [line |-> 700, method |-> "GET", path |-> <<"donations", ":p">>,
        chain |-> <<"authenticateToken">>, writes |-> "nothing"],
       [line |-> 806, method |-> "PATCH",
        path |-> <<"projects", ":p", "expense">>,
        chain |-> <<"authenticateToken", "authorizeStaff">>,
        writes |-> "SPENT"],
       [line |-> 1022, method |-> "PATCH",
        path |-> <<"projects", ":p", "expense">>,
        chain |-> <<"authenticateToken", "authorizeStaff">>,
        writes |-> "SPENT and STATUS"],
       [line |-> 1143, method |-> "GET", path |-> <<"donations">>,
        chain |-> <<"authenticateToken", "authorizeDonor">>,
        writes |-> "nothing"],
       [line |-> 1170, method |-> "POST", path |-> <<"donations">>,
        chain |-> <<"authenticateToken", "authorizeDonor">>,
        writes |-> "DONATION row and AMOUNT_COLLECTED"],
       [line |-> 1223, method |-> "GET", path |-> <<"donations", ":p">>,
        chain |-> <<"authenticateToken">>, writes |-> "nothing"] >>

\* The layer matches the request: same method, and every segment of the
\* route is a parameter or equals the segment of the path.
Matches(layer, method, path) ==
    /\ layer.method = method
    /\ Len(layer.path) = Len(path)
    /\ \A i \in 1 .. Len(path) :
          layer.path[i] = ":p" \/ layer.path[i] = path[i]

RECURSIVE NextMatch(_, _, _)
\* The first matching layer at or after position k; 0 when there is none.
NextMatch(k, method, path) ==
    IF k > Len(Registrations) THEN 0
    ELSE IF Matches(Registrations[k], method, path) THEN k
    ELSE NextMatch(k + 1, method, path)

\* A handler that passes the request on after it has answered.
CallsNextAlways(layer) == TRUE

\* The handler calls next(): none of the handlers takes the next argument.
CallsNext(layer) == FALSE

\* The middlewares of the layer's chain, in order: the first answer that is
\* not "next", or "next" when the handler is reached.
RunChain(layer, tok) ==
    IF authenticateToken(tok).kind # "next" THEN authenticateToken(tok)
    ELSE IF Len(layer.chain) = 2 /\ layer.chain[2] = "authorizeStaff"
    THEN authorizeStaff(tok)
    ELSE IF Len(layer.chain) = 2 /\ layer.chain[2] = "authorizeDonor"
    THEN authorizeDonor(tok)
    ELSE Resp(0, "next", NoData)

\* The request is at layer k (0: past the last layer, the router's own 404).
Dispatch(tok, body, ran, k) ==
    IF k = 0
    THEN Answered("route", tok, body, [ran |-> ran],
                  Resp(404, "NoRoute", NoData))
    ELSE IF RunChain(Registrations[k], tok).kind # "next"
    THEN Answered("route", tok, body, [ran |-> ran],
                  RunChain(Registrations[k], tok))
    ELSE [Waiting("route", "handler", tok, body,
                  [ran |-> Append(ran, k)]) EXCEPT !.conn = FALSE]

RouteRequests ==
    { [method |-> "POST", path |-> <<"donations">>],
      [method |-> "GET", path |-> <<"donations">>],
      [method |-> "GET", path |-> <<"donations", "history">>],
      [method |-> "GET", path |-> <<"donations", "D_0">>],
      [method |-> "PATCH", path |-> <<"projects", "PROJ_0", "expense">>],
      [method |-> "PATCH", path |-> <<"projects", "PROJ_0">>] }

\* The request arrives and the router runs the first matching layer.
RouteArrive(r, tok, body) ==
    /\ CanStart(r)
    /\ req' = [req EXCEPT ![r] =
            Dispatch(tok, body, <<>>, NextMatch(1, body.method, body.path))]
    /\ UNCHANGED <<clock, store, tokens>>

\* The handler of the layer answers; the router goes on to the next matching
\* layer only when the handler called next().
RouteHandler(r) ==
    /\ req[r].op = "route" /\ req[r].pc = "handler"
    /\ LET rq == req[r]
           k == rq.local.ran[Len(rq.local.ran)]
       IN req' = [req EXCEPT ![r] =
            IF CallsNext(Registrations[k])
            THEN Dispatch(rq.user, rq.body, rq.local.ran,
                          NextMatch(k + 1, rq.body.method, rq.body.path))
            ELSE Answered("route", rq.user, rq.body, rq.local,
                          Resp(200, "Handled", [line |-> Registrations[k].line]))]
    /\ UNCHANGED <<clock, store, tokens>>

NextRouter ==
    \/ \E r \in DOMAIN req, tok \in Callers, body \in RouteRequests :
          RouteArrive(r, tok, body) /\ UNCHANGED browser
    \/ \E r \in DOMAIN req : RouteHandler(r) /\ UNCHANGED browser

SpecRouter == Init /\ [][NextRouter]_vars

\* The layers whose handlers ran for some request.
LayersRun ==
    {k \in 1 .. Len(Registrations) :
        \E r \in DOMAIN req :
            /\ req[r].op = "route"
            /\ \E i \in 1 .. Len(req[r].local.ran) : req[r].local.ran[i] = k}

-----------------------------------------------------------------------------
(* Claims about campaigns                                                  *)

ValidCampaignBody ==
    [cName |-> "School kits", goalAmount |-> JNum(20), sDate |-> 1,
     eDate |-> 2]

\* The bodies of POST /api/campaigns: the valid body and the bodies that
\* differ from it in one field.
CampaignBodies ==
    {b \in [cName : CampaignNames, goalAmount : GoalAmounts, sDate : Dates,
            eDate : Dates] :
        Cardinality({f \in {"cName", "goalAmount", "sDate", "eDate"} :
                        b[f] # ValidCampaignBody[f]}) <= 1}

\* The status changes asked for: every input for the open campaign, two
\* statuses for the completed one, and two for an id without a campaign.
CampaignStatusBodies ==
    {b \in [campId : {Id("CAMP", 0), Id("CAMP", -1), Id("CAMP", 9)},
            status : StatusInputs] :
        \/ b.campId = Id("CAMP", 0)
        \/ b.campId = Id("CAMP", -1) /\ b.status \in {"ACTIVE", "CANCELLED"}
        \/ b.campId = Id("CAMP", 9) /\ b.status \in {"ACTIVE", "PAUSED"}}

NextCampaign ==
    \/ Tick /\ UNCHANGED browser
    \/ \E r \in DOMAIN req, tok \in StaffCallers, b \in CampaignBodies :
          CreateCampaign(r, tok, b.cName, b.goalAmount, b.sDate, b.eDate)
          /\ UNCHANGED browser
    \/ \E r \in DOMAIN req, tok \in StaffCallers,
          b \in CampaignStatusBodies : SetStatus(r, tok, b.campId, b.status)
          /\ UNCHANGED browser

SpecCampaign == Init /\ [][NextCampaign]_vars

\* A staff member's setStatus request is answered in this step.
StatusAnswered(r) ==
    /\ req[r].pc = "idle"
    /\ req'[r].pc = "done"
    /\ req'[r].op = "setStatus"
    /\ req'[r].body # NoBody

\* C15: a setStatus whose status is (in any letter case) one of ACTIVE,
\* COMPLETED and CANCELLED sets the status of the addressed campaign, whatever
\* its status was, and changes no other campaign; it is answered 404 when the
\* campaign does not exist; every other status value is answered 400; these
\* two change no campaign.  Every campaign's status is one of the three.
C15_SetStatus ==
    [][/\ \A c \in campaign' : c.status \in validStatuses
       /\ \A r \in DOMAIN req :
            StatusAnswered(r) =>
              LET b == req'[r].body
                  resp == req'[r].resp
                  valid == /\ b.status # NotAString
                           /\ toUpperCase(b.status) \in validStatuses
                  addressed == {c \in campaign : c.campId = b.campId}
              IN /\ (valid /\ addressed # {})
                    => /\ resp.code = 200
                       /\ campaign' =
                            (campaign \ addressed) \cup
                            {[c EXCEPT !.status = toUpperCase(b.status)] :
                                c \in addressed}
                 /\ (valid /\ addressed = {})
                    => /\ resp = Resp(404, "NotFound", NoData)
                       /\ campaign' = campaign
                 /\ ~valid
                    => /\ resp = Resp(400, "Validation", NoData)
                       /\ campaign' = campaign]_vars

\* C16: every stored campaign has a goal above 0 and a start date before its
\* end date, and a campaign that a request created has the status ACTIVE
\* until a setStatus changes it and a raised total of 0.
C16_CampaignsValid ==
    /\ \A c \in campaign : c.goalAmount > 0 /\ c.sDate < c.eDate
    /\ \A r \in DOMAIN req :
          (req[r].op = "createCampaign" /\ req[r].resp.code = 201) =>
            \E c \in campaign :
                /\ c.campId = req[r].resp.data.campId
                /\ TotalRaised(c.campId) = 0
                /\ (c.status = "ACTIVE"
                    \/ \E q \in DOMAIN req :
                          /\ req[q].op = "setStatus"
                          /\ req[q].resp.code = 200
                          /\ req[q].body.campId = c.campId)

\* The body of a createCampaign request is valid.
CampaignBodyValid(b) ==
    /\ b.cName # ""
    /\ b.goalAmount.t = "num" /\ b.goalAmount.v > 0
    /\ b.sDate # NoDate /\ b.eDate # NoDate /\ b.sDate < b.eDate

\* C17: the campaigns have pairwise distinct ids, and a createCampaign of a
\* staff member with a valid body is refused only when a campaign of that
\* name exists.
C17_FreshIds ==
    /\ \A c, d \in campaign : c.campId = d.campId => c = d
    /\ \A r \in DOMAIN req :
          (/\ req[r].op = "createCampaign" /\ req[r].pc = "done"
           /\ req[r].body # NoBody
           /\ CampaignBodyValid(req[r].body))
          => \/ req[r].resp.code = 201
             \/ \E c \in campaign : c.cName = req[r].body.cName

-----------------------------------------------------------------------------
(* Claims about projects                                                   *)

ValidProjectBody ==
    [pName |-> "Well", budget |-> JNum(5), sDate |-> 1, campId |-> NoId]

\* The bodies of POST /api/projects: the valid body and the bodies that
\* differ from it in one field.
ProjectBodies ==
    {b \in [pName : ProjectNames, budget : Budgets, sDate : {NoDate, 1},
            campId : {NoId, Id("CAMP", 0), Id("CAMP", 9)}] :
        Cardinality({f \in {"pName", "budget", "sDate", "campId"} :
                        b[f] # ValidProjectBody[f]}) <= 1}

\* The links asked for: the seeded project, a project created at clock 1 and
\* an id without a project, each with every campaign id.
LinkBodies ==
    [projId : ProjIds \cup {Id("PROJ", 1)}, campId : CampIds]

NextProjectAdmin ==
    \/ Tick /\ UNCHANGED browser
    \/ \E r \in DOMAIN req, tok \in StaffCallers, b \in ProjectBodies :
          CreateProject(r, tok, b.pName, b.budget, b.sDate, b.campId)
          /\ UNCHANGED browser
    \/ \E r \in DOMAIN req, tok \in StaffCallers, b \in LinkBodies :
          LinkCampaign(r, tok, b.projId, b.campId) /\ UNCHANGED browser

SpecProjectAdmin == Init /\ [][NextProjectAdmin]_vars

\* C18: every stored project has a budget above 0 and spent <= budget, and a
\* project that a request created has spent 0 and the status ONGOING.
C18_ProjectsValid ==
    /\ \A p \in project : p.budget > 0 /\ p.spent <= p.budget
    /\ \A r \in DOMAIN req :
          (req[r].op = "createProject" /\ req[r].resp.code = 201) =>
            \E p \in project :
                /\ p.projId = req[r].resp.data.projId
                /\ p.spent = 0 /\ p.status = "ONGOING"

\* A staff member's request for op is answered in this step.
AdminAnswered(r, op) ==
    /\ req[r].pc = "idle"
    /\ req'[r].pc = "done"
    /\ req'[r].op = op
    /\ req'[r].body # NoBody

\* C19: the campaign id of every project is null or the id of a campaign.  A
\* createProject or a linkCampaign with the id of no campaign is answered 400
\* and changes no project, a linkCampaign for the id of no project is answered
\* 404, and a linkCampaign that succeeds changes the campaign id of the
\* addressed project and nothing else.
C19_CampaignReference ==
    [][/\ \A p \in project' :
            p.campId = NoId \/ \E c \in campaign' : c.campId = p.campId
       /\ \A r \in DOMAIN req :
            /\ (/\ AdminAnswered(r, "createProject")
                /\ req'[r].body.campId # NoId
                /\ SelectCampaign(req'[r].body.campId) = {})
               => /\ req'[r].resp = Resp(400, "InvalidCampaign", NoData)
                  /\ project' = project
            /\ (AdminAnswered(r, "linkCampaign")
                /\ req'[r].body.campId # NoId)
               => LET b == req'[r].body
                      resp == req'[r].resp
                      addressed == {p \in project : p.projId = b.projId}
                  IN /\ addressed = {}
                        => /\ resp = Resp(404, "NotFound", NoData)
                           /\ project' = project
                     /\ (addressed # {} /\ SelectCampaign(b.campId) = {})
                        => /\ resp = Resp(400, "InvalidCampaign", NoData)
                           /\ project' = project
                     /\ (addressed # {} /\ SelectCampaign(b.campId) # {})
                        => /\ resp.code = 200
                           /\ project' =
                                (project \ addressed) \cup
                                {[p EXCEPT !.campId = b.campId] :
                                    p \in addressed}]_vars

\* C19 witness: the link of the seeded project to the id of no campaign was
\* answered 400, its link to the completed campaign succeeded, and the
\* project has its budget, spent total and status of start-up.
C19_Witness ==
    \E r, q \in DOMAIN req :
        /\ req[r].op = "linkCampaign" /\ req[r].resp.code = 400
        /\ req[r].body = [projId |-> Id("PROJ", 0), campId |-> Id("CAMP", 9)]
        /\ req[q].op = "linkCampaign" /\ req[q].resp.code = 200
        /\ req[q].body = [projId |-> Id("PROJ", 0), campId |-> Id("CAMP", -1)]
        /\ project =
             {[p EXCEPT !.campId = Id("CAMP", -1)] : p \in SeedProject}

\* C20: a project whose spent total an accepted expense brought to its
\* budget or above has the status COMPLETED, and the status of every project
\* is ONGOING or COMPLETED.
C20_CompletedAtBudget ==
    /\ \A p \in project : p.status \in {"ONGOING", "COMPLETED"}
    /\ \A r \in DOMAIN req :
          (/\ req[r].op = "expense" /\ req[r].pc = "done"
           /\ req[r].resp.code = 200
           /\ req[r].local.newSpent >= req[r].local.budget)
          => \A p \in project :
                (p.projId = req[r].body.projId /\ p.spent >= p.budget)
                => p.status = "COMPLETED"

-----------------------------------------------------------------------------
(* Claims about what the operations leave alone                            *)

\* C21: no step changes the budget of a project that exists, and the step in
\* which an expense is written changes the spent total of the addressed
\* project and nothing else in any table.
C21_BudgetFixed ==
    [][/\ \A p \in project :
            \E n \in project' : n.projId = p.projId /\ n.budget = p.budget
       /\ \A r \in DOMAIN req :
            (/\ req[r].op = "expense" /\ req[r].pc # "done"
             /\ req'[r].pc = "done")
            => /\ <<creds, staff, donor, campaign, donation>>' =
                    <<creds, staff, donor, campaign, donation>>
               /\ \A p \in project :
                     IF p.projId = req[r].body.projId
                        /\ req'[r].resp.code = 200
                     THEN [p EXCEPT !.spent = req'[r].resp.data.newSpentTotal]
                              \in project'
                     ELSE p \in project'
               /\ Cardinality(project') = Cardinality(project)]_vars

\* C21 witness: a project was created and an expense of 2 on the seeded
\* project was accepted; the new project is as it was created and the seeded
\* one differs from start-up in its spent total only.
C21_Witness ==
    \E r, q \in DOMAIN req :
        /\ req[r].op = "createProject" /\ req[r].resp.code = 201
        /\ req[q].op = "expense" /\ req[q].resp.code = 200
        /\ project =
             {[p EXCEPT !.spent = 50] : p \in SeedProject} \cup
             {[projId |-> req[r].resp.data.projId, pName |-> "Well",
               budget |-> 5, spent |-> 0, status |-> "ONGOING", sDate |-> 1,
               overseer |-> Id("S", 0), campId |-> NoId]}

-----------------------------------------------------------------------------
(* Claims about login                                                      *)

\* C22: the step of a login request, whatever its body and its answer,
\* leaves the credentials, the profiles, the campaigns, the projects and the
\* donations as they were.
C22_LoginReadsOnly ==
    [][\A r \in DOMAIN req :
          (req[r].pc = "idle" /\ req'[r].op = "login") => store' = store]_vars

\* C22 witness: a login was answered 200 with a token and a login was
\* answered 401, and every table is as it was at start-up.
C22_Witness ==
    \E r, q \in DOMAIN req :
        /\ req[r].op = "login" /\ req[r].resp.code = 200
        /\ req[r].resp.data.token \in tokens
        /\ req[q].op = "login" /\ req[q].resp.kind = "AuthFailed"
        /\ store = <<SeedCreds, SeedStaff, SeedDonor, SeedCampaign,
                     SeedProject, SeedDonation>>

\* The credentials with the email and the password of a login body.
Matching(b) ==
    {u \in creds : u.email = b.email /\ u.password = bcryptHash(b.password)}

\* C25: a login with an unknown email or a password that does not match is
\* answered 401 without a token; a login answered 200 carries a token with
\* the id and the role of the credential of that email and the id of the
\* credential's profile row, and every token in circulation is of that form.
C25_Authenticate ==
    /\ \A r \in DOMAIN req :
          (/\ req[r].op = "login" /\ req[r].pc = "done"
           /\ req[r].body.email # "" /\ req[r].body.password # "")
          => /\ Matching(req[r].body) = {}
                => req[r].resp = Resp(401, "AuthFailed", NoData)
             /\ req[r].resp.code = 200
                => \E u \in Matching(req[r].body) :
                      LET t == req[r].resp.data.token
                      IN /\ t.userId = u.userId
                         /\ t.userType = u.userType
                         /\ t.primaryId = ProfileIdOf(u)
                         /\ t.primaryId # NoId
             /\ req[r].resp.code # 200 => req[r].resp.data = NoData
    /\ \A t \in tokens :
          \E u \in creds :
              /\ t.userId = u.userId /\ t.userType = u.userType
              /\ t.primaryId = ProfileIdOf(u) /\ t.primaryId # NoId

\* C25 witness: a login of the seeded donor with a wrong password was
\* answered 401 and the login with the right one was answered 200 with a
\* token for the donor's profile.
C25_Witness ==
    \E r, q \in DOMAIN req :
        /\ req[r].op = "login" /\ req[r].resp.code = 401
        /\ req[r].body = [email |-> "ann@mail.org", password |-> "secret1"]
        /\ req[q].op = "login" /\ req[q].resp.code = 200
        /\ req[q].body = [email |-> "ann@mail.org", password |-> "annpw1"]
        /\ req[q].resp.data.token.primaryId = Id("D", 0)

-----------------------------------------------------------------------------
(* Claims about the connections                                            *)

\* C23: a request holds a connection exactly while its handler is between
\* getConnection and its answer: not before it arrives, not when it was
\* answered before getConnection, and not after its answer on any path; a
\* finished request stays as it is, so its connection is closed once and no
\* connection is open when every request has finished.
C23_ConnectionScoped ==
    [][\A r \in DOMAIN req :
          /\ req'[r].conn <=> req'[r].pc \notin {"idle", "done"}
          /\ (req[r].conn /\ ~req'[r].conn) => req'[r].pc = "done"
          /\ req[r].pc = "done" => req'[r] = req[r]
          /\ (req[r].pc = "idle" /\ req'[r].pc = "done") => ~req'[r].conn]_vars

\* C23 witness: an expense was answered 200 and another one 400 by the budget
\* check, after the handler had acquired its connection; both are finished
\* and no connection is open.
C23_Witness ==
    /\ \E r, q \in DOMAIN req :
          /\ req[r].op = "expense" /\ req[r].resp.code = 200
          /\ req[q].op = "expense" /\ req[q].resp.kind = "BudgetExceeded"
    /\ \A r \in DOMAIN req : req[r].pc = "done" /\ ~req[r].conn

-----------------------------------------------------------------------------
(* Claims about the financial summary                                      *)

\* Campaigns that were loaded into the store with the others: one without a
\* goal and one whose goal does not divide the amounts donated to it.
LoadedCampaign ==
    { [campId |-> Id("CAMP", -2), cName |-> "Legacy", status |-> "ACTIVE",
       sDate |-> 1, eDate |-> 2, goalAmount |-> 0, manager |-> Id("S", 0)],
      [campId |-> Id("CAMP", -3), cName |-> "Books", status |-> "ACTIVE",
       sDate |-> 1, eDate |-> 2, goalAmount |-> 7, manager |-> Id("S", 0)] }

InitSummary ==
    /\ clock = 1
    /\ creds = SeedCreds
    /\ staff = SeedStaff
    /\ donor = SeedDonor
    /\ campaign = SeedCampaign \cup LoadedCampaign
    /\ project = SeedProject
    /\ donation = SeedDonation
    /\ tokens = SeedTokens
    /\ req = [r \in 1..MaxReqs |-> Idle]
    /\ browser = FreshBrowser

NextSummary ==
    \/ Tick /\ UNCHANGED browser
    \/ \E r \in DOMAIN req, tok \in DonorCallers,
          campId \in {Id("CAMP", -2), Id("CAMP", -3)},
          amount \in {JNum(1), JNum(3)} : DonateStart(r, tok, campId, amount)
          /\ UNCHANGED browser
    \/ \E r \in DOMAIN req : DonateCheck(r) /\ UNCHANGED browser
    \/ \E r \in DOMAIN req : DonateInsert(r) /\ UNCHANGED browser
    \/ \E r \in DOMAIN req, tok \in tokens : Summary(r, tok)
          /\ UNCHANGED browser

SpecSummary == InitSummary /\ [][NextSummary]_vars

\* C24: the summary that a staff member is sent has one row for each
\* campaign; its total raised is the sum of the amounts of the campaign's
\* donations (0 without donations); its percent_met is 0 when the goal is 0
\* (or below) and otherwise the hundredth of a percent nearest to
\* raised / goal * 100; goal 10000 and raised 10500 give 105.00.
C24_PercentMet ==
    [][/\ PercentMet(10500, 10000) = 10500
       /\ \A r \in DOMAIN req :
            (/\ req[r].pc = "idle" /\ req'[r].op = "summary"
             /\ req'[r].resp.code = 200)
            => /\ {row.campId : row \in req'[r].resp.data.summary} =
                    {c.campId : c \in campaign}
               /\ \A row \in req'[r].resp.data.summary :
                    LET given == {d \in donation : d.campId = row.campId}
                        goal == row.goalAmount
                        off == row.percentMet * goal
                                   - row.totalRaised * 10000
                    IN /\ \E c \in campaign :
                            c.campId = row.campId /\ c.goalAmount = goal
                       /\ given = {} => row.totalRaised = 0
                       /\ row.totalRaised = SumAmounts(given)
                       /\ goal <= 0 => row.percentMet = 0
                       /\ goal > 0 => /\ 2 * off <= goal
                                      /\ 2 * off >= -goal]_vars

\* C24 witness: after a donation of 3 to the campaign with goal 7 and none
\* to the campaign with goal 0, the summary reports 42.86 for the first, 0
\* for the second and 80.00 for the seeded open campaign.
C24_Witness ==
    \E r \in DOMAIN req :
        /\ req[r].op = "summary" /\ req[r].resp.code = 200
        /\ \E row \in req[r].resp.data.summary :
              /\ row.campId = Id("CAMP", -3)
              /\ row.totalRaised = 3 /\ row.percentMet = 4286
        /\ \E row \in req[r].resp.data.summary :
              /\ row.campId = Id("CAMP", -2)
              /\ row.totalRaised = 0 /\ row.percentMet = 0
        /\ \E row \in req[r].resp.data.summary :
              /\ row.campId = Id("CAMP", 0)
              /\ row.totalRaised = 16 /\ row.percentMet = 8000

-----------------------------------------------------------------------------
(* Claims about expenses executed one after the other                      *)

\* No request is between its arrival and its answer.
NoneInFlight == \A q \in DOMAIN req : req[q].pc \in {"idle", "done"}

\* Expense requests, each started when the one before it was answered.
NextSequential ==
    \/ \E r \in DOMAIN req, tok \in Callers, b \in ExpenseBodies :
          NoneInFlight /\ ExpenseStart(r, tok, b.projId, b.expenseAmount)
          /\ UNCHANGED browser
    \/ \E r \in DOMAIN req : ExpenseSelect(r) /\ UNCHANGED browser
    \/ \E r \in DOMAIN req : ExpenseUpdate(r) /\ UNCHANGED browser

SpecSequential == Init /\ [][NextSequential]_vars

\* The amount of an expense body is a number above 0.
AmountAccepted(x) == x.t = "num" /\ x.v > 0

\* C26: with one expense request at a time, a staff member's request with an
\* amount that is no number above 0 is answered 400 and one for an absent
\* project 404, both without a write; for an existing project the request is
\* answered 200 exactly when spent + amount <= budget (equality included),
\* SPENT is then spent + amount and newSpentTotal reports it; otherwise it is
\* answered 400 without a write.
C26_SequentialExpense ==
    [][\A r \in DOMAIN req :
          LET b == req'[r].body
              rows == {p \in project : p.projId = b.projId}
              amount == b.expenseAmount.v
          IN /\ (/\ req[r].pc = "idle" /\ req'[r].op = "expense"
                 /\ b # NoBody /\ ~AmountAccepted(b.expenseAmount))
                => /\ req'[r].resp = Resp(400, "Validation", NoData)
                   /\ store' = store
             /\ (/\ req[r].pc = "idle" /\ req'[r].op = "expense"
                 /\ b # NoBody /\ AmountAccepted(b.expenseAmount))
                => req'[r].pc = "select" /\ store' = store
             /\ (req[r].op = "expense" /\ req[r].pc = "select")
                => /\ store' = store
                   /\ rows = {} => req'[r].resp = Resp(404, "NotFound", NoData)
                   /\ \A p \in rows :
                         IF p.spent + amount <= p.budget
                         THEN req'[r].pc = "update"
                         ELSE /\ req'[r].pc = "done"
                              /\ req'[r].resp.code = 400
             /\ (req[r].op = "expense" /\ req[r].pc = "update")
                => /\ req'[r].pc = "done" /\ req'[r].resp.code = 200
                   /\ \A p \in rows :
                         /\ p.spent + amount <= p.budget
                         /\ req'[r].resp.data.newSpentTotal = p.spent + amount
                         /\ project' =
                              (project \ {p}) \cup
                              {[p EXCEPT !.spent = p.spent + amount]}]_vars

\* C26 witness: an expense of 2 on the project with budget 50 and spent 48
\* was answered 200 with the total 50, and the expense of 1 after it was
\* answered 400; the spent total is 50.
C26_Witness ==
    \E r, q \in DOMAIN req :
        /\ req[r].op = "expense" /\ req[r].resp.code = 200
        /\ req[r].body.expenseAmount = JNum(2)
        /\ req[r].resp.data.newSpentTotal = 50
        /\ req[q].op = "expense" /\ req[q].resp.kind = "BudgetExceeded"
        /\ req[q].body.expenseAmount = JNum(1)
        /\ \A p \in project : p.spent = 50 /\ p.budget = 50

-----------------------------------------------------------------------------
(* Claims about donations and status changes that interleave                *)

\* C27: every DONATION row is inserted while its campaign has the status
\* ACTIVE, whatever setStatus requests ran between the status check of the
\* donation and its INSERT.
C27_InsertOnlyIfActive ==
    [][\A d \in donation' \ donation :
          \E c \in campaign : c.campId = d.campId /\ c.status = "ACTIVE"]_vars

\* C28: a signup is answered 409 only by its credential INSERT and only when
\* a credential with its email or its Aadhar number is in the store.
C28_ConflictOnlyForDuplicates ==
    [][\A r \in DOMAIN req :
          (/\ req[r].op = "signup" /\ req[r].pc # "done"
           /\ req'[r].pc = "done" /\ req'[r].resp.code = 409)
          => /\ req[r].pc = "cred"
             /\ \E u \in creds : \/ u.email = req[r].body.email
                                  \/ u.aadharNo = req[r].body.aadharNo]_vars

-----------------------------------------------------------------------------
(* The single-page application                                             *)

\* A page load: the address bar, a reload or a plain <a href> link. The
\* script starts again, AuthProvider reads token and user from localStorage.
Visit(path) ==
    /\ browser' = [browser EXCEPT !.path = path, !.view = "pending",
                                  !.navbar = FALSE, !.hops = 0,
                                  !.awaiting = 0]
    /\ UNCHANGED <<clock, store, tokens, req>>

\* One render of App at the current location. Navbar reads user.FNAME
\* before anything else: with a null user the render throws and React
\* unmounts the application, before the second <Routes> is reached.
\* Otherwise the matched route renders its page or navigates (replace).
Render ==
    /\ browser.view = "pending"
    /\ LET out == Routes(browser.path, browser.token, browser.user)
       IN IF NavbarMatches(browser.path) /\ browser.user = NoUser
          THEN browser' = [browser EXCEPT !.view = "crashed",
                                          !.navbar = TRUE]
          ELSE IF out.kind = "navigate"
          THEN /\ browser.hops < MaxHops
               /\ browser' = [browser EXCEPT
                     !.path = out.to, !.hops = browser.hops + 1,
                     !.navbar = NavbarMatches(browser.path)]
          ELSE browser' = [browser EXCEPT
                     !.view = out.page,
                     !.navbar = NavbarMatches(browser.path)]
    /\ UNCHANGED <<clock, store, tokens, req>>

\* Navbar is on the screen.
NavbarShown ==
    /\ browser.view \notin {"pending", "crashed"}
    /\ browser.navbar

\* An in-application navigate(path) of a page or of Navbar.
GoTo(path) ==
    browser' = [browser EXCEPT !.path = path, !.view = "pending", !.hops = 0]

\* Login.handleSubmit up to its await: the form is posted.
LoginSubmit(r, email, password) ==
    /\ browser.view = "Login"
    /\ browser.awaiting = 0
    /\ Login(r, email, password)
    /\ browser' = [browser EXCEPT !.awaiting = r]

\* Login.handleSubmit after its await: login(token, user) of AuthContext and
\* navigate to the dashboard of the answered userType, or the error message.
LoginResponse ==
    /\ browser.awaiting # 0
    /\ req[browser.awaiting].pc = "done"
    /\ LET resp == req[browser.awaiting].resp
           token == resp.data.token
       IN IF resp.code = 200
          THEN browser' = [browser EXCEPT
                  !.token = token,
                  !.user = [primaryId |-> token.primaryId,
                            userType |-> token.userType],
                  !.path = IF token.userType = "STAFF"
                           THEN <<"dashboard", "staff">>
                           ELSE <<"dashboard", "donor">>,
                  !.view = "pending", !.hops = 0, !.awaiting = 0]
          ELSE browser' = [browser EXCEPT !.awaiting = 0]
    /\ UNCHANGED <<clock, store, tokens, req>>

\* Navbar.handleLogout, confirmed: logout() of AuthContext, then /login.
NavbarLogout ==
    /\ NavbarShown
    /\ browser' = [browser EXCEPT
          !.token = MissingToken, !.user = NoUser,
          !.path = <<"login">>, !.view = "pending", !.hops = 0]
    /\ UNCHANGED <<clock, store, tokens, req>>

\* The Logout button of StaffDashboard: logout() of AuthContext alone.
DashboardLogout ==
    /\ browser.view = "StaffDashboard"
    /\ browser' = [browser EXCEPT
          !.token = MissingToken, !.user = NoUser,
          !.view = "pending", !.hops = 0]
    /\ UNCHANGED <<clock, store, tokens, req>>

\* Navbar.goToDashboard: the logo.
GoToDashboard ==
    /\ NavbarShown
    /\ GoTo(IF browser.user.userType = "DONOR"
            THEN <<"dashboard", "donor">> ELSE <<"dashboard", "staff">>)
    /\ UNCHANGED <<clock, store, tokens, req>>

\* The receipt button of a row of DonorDashboard.
OpenReceipt ==
    /\ browser.view = "DonorDashboard"
    /\ GoTo(<<"receipt", "D_0">>)
    /\ UNCHANGED <<clock, store, tokens, req>>

\* "Back to Dashboard" of DonorReceipt.
BackToDashboard ==
    /\ browser.view = "DonorReceipt"
    /\ GoTo(<<"dashboard", "donor">>)
    /\ UNCHANGED <<clock, store, tokens, req>>

FrontLogins ==
    { [email |-> "staff@ngo.org", password |-> "staffpw"],
      [email |-> "ann@mail.org", password |-> "annpw1"],
      [email |-> "ann@mail.org", password |-> "staffpw"] }

NextFront ==
    \/ \E path \in Paths : Visit(path)
    \/ Render
    \/ \E r \in DOMAIN req, b \in FrontLogins :
          LoginSubmit(r, b.email, b.password)
    \/ LoginResponse
    \/ NavbarLogout
    \/ DashboardLogout
    \/ GoToDashboard
    \/ OpenReceipt
    \/ BackToDashboard

SpecFront == Init /\ [][NextFront]_vars

\* The locations of the three protected routes, their pages and the types
\* they require.
Protected(path) ==
    \/ path \in {<<"dashboard", "staff">>, <<"dashboard", "donor">>}
    \/ Len(path) = 2 /\ path[1] = "receipt"

PageOf(path) ==
    IF path = <<"dashboard", "staff">> THEN "StaffDashboard"
    ELSE IF path = <<"dashboard", "donor">> THEN "DonorDashboard"
    ELSE "DonorReceipt"

RequiredTypeOf(path) ==
    IF path = <<"dashboard", "staff">> THEN {"STAFF"}
    ELSE IF path = <<"dashboard", "donor">> THEN {"DONOR"}
    ELSE {"DONOR", "STAFF"}

\* The application was rendered at a protected location.
RenderedProtected ==
    /\ browser.view = "pending"
    /\ Protected(browser.path)
    /\ \/ browser'.view # "pending"
       \/ browser'.hops = browser.hops + 1

\* C29: a render at a protected location shows the page exactly when a token
\* is present and the userType is a required one; without a token it goes to
\* /login; with a token and another type it goes to the dashboard of the
\* user, and for a STAFF or DONOR user that is at most the first redirect.
C29_ProtectedRoute ==
    [][RenderedProtected =>
          LET type == UserTypeOf(browser.user)
              required == RequiredTypeOf(browser.path)
          IN /\ browser.token = MissingToken
                => browser'.view = "pending" /\ browser'.path = <<"login">>
             /\ browser.token # MissingToken /\ type \in required
                => browser'.view = PageOf(browser.path)
             /\ browser.token # MissingToken /\ type \notin required
                => /\ browser'.view = "pending"
                   /\ browser'.path = IF type = "STAFF"
                                      THEN <<"dashboard", "staff">>
                                      ELSE <<"dashboard", "donor">>
             /\ browser.token # MissingToken /\ type \in {"STAFF", "DONOR"}
                => browser'.hops <= 1]_vars

\* C30: whenever Navbar was rendered, the user of the auth context is not
\* null.
C30_NavbarHasUser ==
    (browser.view # "pending" /\ browser.navbar) => browser.user # NoUser

====
